---- MODULE Spec2Model ----
(***************************************************************************)
(* KeepAlive (src/main.py): the per-tenant pinger scheduler and the        *)
(* conversation handlers that drive it.                                    *)
(*                                                                         *)
(* One coroutine step of the program is one action: a handler or a ping    *)
(* cycle is cut at the awaits where another coroutine can observe or       *)
(* change the settings collection or the job queue.  Owner updates are     *)
(* processed one at a time (the Application is built without concurrent    *)
(* updates); job callbacks run beside them on the same event loop, one     *)
(* running instance per registered job.                                    *)
(***************************************************************************)
EXTENDS Integers, Sequences, FiniteSets, Bags, TLC

\* ------------------------------------------------------------------ bounds
\* most jobs registered at once under one tenant's job name
MaxJobs == 2

\* most runs of the job callback in progress at once for one tenant
MaxRuns == 2

\* most tokens in one message sent while adding bots
MaxTokens == 2

\* ------------------------------------------------------------- the handles
\* the bot's own handle (context.bot.get_me()) and the handles owners name
my_bot_username == "@keepalive_bot"
Handles == {"@a_bot"}

\* the handles of the runs that only edit the list of bots
MoreHandles == Handles \cup {"@b_bot", "@c_bot"}

\* lexicographic rank of the handles (Python's str ordering, used by sorted)
Rank(h) ==
  CASE h = "@a_bot" -> 1
    [] h = "@b_bot" -> 2
    [] h = "@c_bot" -> 3
    [] h = "@keepalive_bot" -> 4

\* session strings an owner can send
SessionTexts == {"session1"}
None == "None"

\* ConversationHandler states; END is the state before /start
SELECTING_ACTION == 0
AWAIT_BOT_USERNAME == 1
AWAIT_SESSION_STRING == 2
AWAIT_INTERVAL == 3
MANAGE_BOTS == 4
END == -1

\* ------------------------------------------------------------ persistence
DefaultInterval == 420

get_default_data ==
  [userbot_session |-> None, target_bots |-> <<>>,
   ping_interval_seconds |-> DefaultInterval, is_running |-> FALSE]

\* a tenant id with no document in the collection
NoDoc == [absent |-> TRUE]

IsSorted(s) == \A i \in 1..(Len(s) - 1) : Rank(s[i]) < Rank(s[i + 1])

TargetLists ==
  {s \in UNION {[1..n -> Handles] : n \in 0..Cardinality(Handles)} : IsSorted(s)}

Intervals == {60, DefaultInterval}

\* the documents the program writes: is_running is set only beside a session
Docs ==
  {d \in [userbot_session : SessionTexts \cup {None}, target_bots : TargetLists,
          ping_interval_seconds : Intervals, is_running : BOOLEAN] :
     d.is_running => d.userbot_session # None}

VARIABLES
  client,     \* TRUE iff the Mongo client was constructed
  store,      \* settings_collection: tenant id -> document (or NoDoc)
  jobs,       \* job queue: tenant id -> the jobs named pinger_job_<id>
  cycles,     \* tenant id -> the ping_bots_task runs in progress
  handler,    \* tenant id -> the owner handler in progress
  conv,       \* tenant id -> ConversationHandler state
  recovered,  \* post_init has run
  begun       \* tenant id -> the callback was called since toggle_pinger last
              \* changed the jobs (or since startup)

vars == <<client, store, jobs, cycles, handler, conv, recovered, begun>>

\* the chats of this run
Tenants == DOMAIN store

\* load_data: defaults merged under the stored document
load_data(t) ==
  IF ~client THEN get_default_data
  ELSE IF store[t] = NoDoc THEN get_default_data
  ELSE store[t]

\* save_data: $set of every field of data, upsert
save_data(t, data) ==
  IF ~client THEN store ELSE [store EXCEPT ![t] = data]

\* ---------------------------------------------------------------- job queue
\* mutant: the call registers nothing
run_repeating_dropped(js, interval) == js

\* jobs[t] is the bag of the intervals of the jobs named pinger_job_<t>.
\* job_queue.run_repeating(ping_bots_task, interval=..., name=job_name)
run_repeating(js, interval) == js (+) SetToBag({interval})

\* mutant: only the first job found is removed
remove_first_job(js) ==
  IF js = EmptyBag THEN EmptyBag
  ELSE js (-) SetToBag({CHOOSE i \in BagToSet(js) : TRUE})

\* for job in get_jobs_by_name(job_name): job.schedule_removal()
remove_jobs_by_name(js) == EmptyBag

\* the runs in progress lose their job when it is removed; they run on
Detached(cs) ==
  LET D(c) == [c EXCEPT !.job = 0] IN
    [d \in {D(c) : c \in BagToSet(cs)} |->
       LET same == {c \in BagToSet(cs) : D(c) = d}
           RECURSIVE Sum(_)
           Sum(S) == IF S = {} THEN 0
                     ELSE LET x == CHOOSE y \in S : TRUE
                          IN CopiesIn(x, cs) + Sum(S \ {x})
       IN Sum(same)]

\* ------------------------------------------------------------------ startup
\* no update is being handled
Idle ==
  [op |-> "idle", pc |-> "idle", data |-> get_default_data,
   reply |-> "", next |-> END]

InitWith(ids, docs) ==
  /\ client \in BOOLEAN
  /\ store \in [ids -> docs]
  /\ jobs = [t \in ids |-> EmptyBag]
  /\ cycles = [t \in ids |-> EmptyBag]
  /\ handler = [t \in ids |-> Idle]
  /\ conv = [t \in ids |-> END]
  /\ recovered = FALSE
  /\ begun = [t \in ids |-> FALSE]

\* one chat, any document the program can have left in the collection
Init == InitWith({"T42"}, Docs \cup {NoDoc})

\* mutant: the query without its filter
find_any(doc) == doc # NoDoc

\* settings_collection.find({"is_running": True})
find_is_running(doc) == doc # NoDoc /\ doc.is_running

\* doc.get("ping_interval_seconds", 420)
restored_interval(doc) == doc.ping_interval_seconds

\* post_init: one job per document found, at its stored interval
post_init ==
  /\ ~recovered
  /\ recovered' = TRUE
  /\ jobs' = IF ~client THEN jobs
             ELSE [t \in Tenants |->
                     IF find_is_running(store[t])
                     THEN run_repeating(jobs[t], restored_interval(store[t]))
                     ELSE jobs[t]]
  /\ UNCHANGED <<client, store, cycles, handler, conv, begun>>

\* ----------------------------------------------------------------- handlers
\* a run at "done" has executed its last statement: it returns before anything
\* else runs on the event loop
Returning == \E t \in Tenants : \E c \in BagToSet(cycles[t]) : c.pc = "done"

\* updates are handled one at a time, after startup
Ready(t) ==
  t \in Tenants /\ recovered /\ ~Returning /\ handler[t].op = "idle"

\* the handler op of tenant t is at one of pcs
At(t, op, pcs) ==
  t \in Tenants /\ ~Returning /\ handler[t].op = op /\ handler[t].pc \in pcs

\* the run c of tenant t is at one of pcs
In(t, c, pcs) == ~Returning /\ BagIn(c, cycles[t]) /\ c.pc \in pcs

\* what a handler still reads of its data once it has saved it
Kept(data) ==
  [get_default_data EXCEPT !.ping_interval_seconds = data.ping_interval_seconds,
                           !.is_running = data.is_running]

Begin(t, op, pc, data, reply, next) ==
  handler' = [handler EXCEPT ![t] =
    [op |-> op, pc |-> pc, data |-> data, reply |-> reply, next |-> next]]

\* a handler that neither writes nor schedules: reply and new state
Answer(t, next) ==
  /\ conv' = [conv EXCEPT ![t] = next]
  /\ UNCHANGED <<client, store, jobs, cycles, handler, recovered, begun>>

\* mutant: the start branch without its session check
HasSessionUnchecked(data) == TRUE

\* data.get("userbot_session") is truthy
HasSession(data) == data.userbot_session # None

\* toggle_pinger up to its first save: load and branch
toggle_pinger(t) ==
  /\ Ready(t)
  /\ conv[t] = SELECTING_ACTION
  /\ LET data == load_data(t) IN
       IF ~client
       THEN Begin(t, "toggle_pinger", "return", get_default_data,
                  "database_error", SELECTING_ACTION)
       ELSE IF data.is_running
       THEN Begin(t, "toggle_pinger", "stop_save",
                  [data EXCEPT !.is_running = FALSE], "", SELECTING_ACTION)
       ELSE IF ~HasSession(data)
       THEN Begin(t, "toggle_pinger", "menu", get_default_data, "cannot_start",
                  SELECTING_ACTION)
       ELSE Begin(t, "toggle_pinger", "start_save",
                  [data EXCEPT !.is_running = TRUE], "", SELECTING_ACTION)
  /\ UNCHANGED <<client, store, jobs, cycles, conv, recovered, begun>>

\* await save_data(chat_id, data) of either branch
toggle_save(t) ==
  /\ At(t, "toggle_pinger", {"stop_save", "start_save"})
  /\ store' = save_data(t, handler[t].data)
  /\ handler' = [handler EXCEPT ![t].pc =
                   IF handler[t].pc = "stop_save" THEN "stop_jobs" ELSE "start_jobs",
                                ![t].data = Kept(handler[t].data)]
  /\ UNCHANGED <<client, jobs, cycles, conv, recovered, begun>>

\* the job-queue calls that follow the save, and the reply
toggle_jobs(t) ==
  /\ At(t, "toggle_pinger", {"stop_jobs", "start_jobs"})
  /\ handler[t].pc = "start_jobs" => BagCardinality(jobs[t]) < MaxJobs
  /\ jobs' = [jobs EXCEPT ![t] =
                IF handler[t].pc = "stop_jobs"
                THEN remove_jobs_by_name(jobs[t])
                ELSE run_repeating(jobs[t], handler[t].data.ping_interval_seconds)]
  /\ cycles' = [cycles EXCEPT ![t] =
                  IF handler[t].pc = "stop_jobs" THEN Detached(cycles[t])
                  ELSE cycles[t]]
  /\ handler' = [handler EXCEPT ![t].pc = "menu",
                                ![t].data = get_default_data,
                                ![t].reply = IF handler[t].pc = "stop_jobs"
                                             THEN "stopped" ELSE "started"]
  /\ begun' = [begun EXCEPT ![t] = FALSE]
  /\ UNCHANGED <<client, store, conv, recovered>>

\* the menu a handler ends with (reads only) and the state it returns
handler_return(t) ==
  /\ At(t, handler[t].op, {"menu", "return"})
  /\ conv' = [conv EXCEPT ![t] = handler[t].next]
  /\ handler' = [handler EXCEPT ![t] = Idle]
  /\ UNCHANGED <<client, store, jobs, cycles, recovered, begun>>

\* /start: entry point and fallback
start(t) ==
  /\ Ready(t)
  /\ Answer(t, IF ~client THEN END ELSE SELECTING_ACTION)

\* mutant: /cancel ends the conversation
cancel_ends(t) ==
  /\ Ready(t)
  /\ conv[t] # END
  /\ Answer(t, END)

\* /cancel: fallback of a conversation that has begun
cancel(t) ==
  /\ Ready(t)
  /\ conv[t] # END
  /\ Answer(t, SELECTING_ACTION)

prompt_session_string(t) ==
  /\ Ready(t)
  /\ conv[t] = SELECTING_ACTION
  /\ Answer(t, AWAIT_SESSION_STRING)

prompt_interval(t) ==
  /\ Ready(t)
  /\ conv[t] = SELECTING_ACTION
  /\ Answer(t, AWAIT_INTERVAL)

\* manage_bots_menu as the callback of "manage_bots"
manage_bots_menu(t) ==
  /\ Ready(t)
  /\ conv[t] = SELECTING_ACTION
  /\ Answer(t, MANAGE_BOTS)

prompt_add_bot(t) ==
  /\ Ready(t)
  /\ conv[t] = MANAGE_BOTS
  /\ Answer(t, AWAIT_BOT_USERNAME)

\* show_main_menu as a callback (status_check, main_menu): it returns None,
\* which leaves the conversation where it is
show_main_menu(t) ==
  /\ Ready(t)
  /\ conv[t] \in {SELECTING_ACTION, MANAGE_BOTS}
  /\ Answer(t, conv[t])

\* save_session_string: load, set the session, then save
save_session_string(t, text) ==
  /\ Ready(t)
  /\ conv[t] = AWAIT_SESSION_STRING
  /\ Begin(t, "save_session_string", "save",
           [load_data(t) EXCEPT !.userbot_session = text], "", SELECTING_ACTION)
  /\ UNCHANGED <<client, store, jobs, cycles, conv, recovered, begun>>

session_save(t) ==
  /\ At(t, "save_session_string", {"save"})
  /\ store' = save_data(t, handler[t].data)
  /\ handler' = [handler EXCEPT ![t].pc = "menu", ![t].reply = "session_saved",
                                ![t].data = get_default_data]
  /\ UNCHANGED <<client, jobs, cycles, conv, recovered, begun>>

\* int(update.message.text): an optional sign and decimal digits
DigitChars == {"0", "1", "7"}

DigitValue(ch) == CASE ch = "0" -> 0 [] ch = "1" -> 1 [] ch = "7" -> 7

RECURSIVE DigitsValue(_)
DigitsValue(s) ==
  IF s = <<>> THEN 0
  ELSE 10 * DigitsValue(SubSeq(s, 1, Len(s) - 1)) + DigitValue(s[Len(s)])

int(text) ==
  LET signed == Len(text) > 0 /\ text[1] \in {"-", "+"}
      digits == IF signed THEN Tail(text) ELSE text
      ok == Len(digits) > 0 /\ \A i \in 1..Len(digits) : digits[i] \in DigitChars
  IN [ok |-> ok,
      value |-> IF ~ok THEN 0
                ELSE IF signed /\ text[1] = "-" THEN 0 - DigitsValue(digits)
                ELSE DigitsValue(digits)]

\* the texts an owner sends when asked for the interval
IntervalTexts == {<<"1">>, <<"7">>, <<"0">>, <<"-", "1">>, <<"x">>}

\* the try block of save_interval raises ValueError
InvalidInterval(text) == ~int(text).ok \/ int(text).value < 1

\* save_interval up to its save: parse, then load and set the interval
save_interval(t, text) ==
  /\ Ready(t)
  /\ conv[t] = AWAIT_INTERVAL
  /\ IF InvalidInterval(text)
     THEN Begin(t, "save_interval", "menu", get_default_data, "invalid_input",
                SELECTING_ACTION)
     ELSE Begin(t, "save_interval", "save",
                [load_data(t) EXCEPT !.ping_interval_seconds = int(text).value * 60],
                "", SELECTING_ACTION)
  /\ UNCHANGED <<client, store, jobs, cycles, conv, recovered, begun>>

\* if data.get("is_running", False): the schedule is replaced
Reschedules(data) == data.is_running

interval_save(t) ==
  /\ At(t, "save_interval", {"save"})
  /\ store' = save_data(t, handler[t].data)
  /\ handler' = [handler EXCEPT
       ![t].pc = IF Reschedules(handler[t].data) THEN "reschedule" ELSE "menu",
       ![t].data = IF Reschedules(handler[t].data) THEN Kept(handler[t].data)
                   ELSE get_default_data,
       ![t].reply = "interval_set"]
  /\ UNCHANGED <<client, jobs, cycles, conv, recovered, begun>>

\* every job of the name is removed and one is registered at the new interval
interval_reschedule(t) ==
  /\ At(t, "save_interval", {"reschedule"})
  /\ jobs' = [jobs EXCEPT ![t] =
       run_repeating(remove_jobs_by_name(jobs[t]),
                     handler[t].data.ping_interval_seconds)]
  /\ cycles' = [cycles EXCEPT ![t] = Detached(cycles[t])]
  /\ handler' = [handler EXCEPT ![t].pc = "menu", ![t].reply = "schedule_updated",
                                ![t].data = get_default_data]
  /\ UNCHANGED <<client, store, conv, recovered, begun>>

\* a message as the words it is made of: handles, and words that are none
Tokens == Handles \cup {my_bot_username, "junk"}

BotTexts == UNION {[1..n -> Tokens] : n \in 1..MaxTokens}

MoreBotTexts == UNION {[1..n -> Tokens \cup MoreHandles] : n \in 1..MaxTokens}

\* re.findall(r"@[a-zA-Z0-9_]{5,32}", raw_text)
IsUsername(w) == w \in MoreHandles \cup {my_bot_username}

findall(raw_text) == SelectSeq(raw_text, IsUsername)

\* the loop over potential_bots: the set after it, and whether any was added
RECURSIVE add_bots(_, _, _)
add_bots(bots, existing, added) ==
  IF bots = <<>> THEN [existing |-> existing, added |-> added]
  ELSE IF Head(bots) = my_bot_username \/ Head(bots) \in existing
       THEN add_bots(Tail(bots), existing, added)
       ELSE add_bots(Tail(bots), existing \cup {Head(bots)}, TRUE)

\* set(...) of a list
ToSet(s) == {s[i] : i \in 1..Len(s)}

\* mutant: the list in descending order
descending(S) ==
  CHOOSE s \in [1..Cardinality(S) -> S] :
    /\ ToSet(s) = S
    /\ \A i \in 1..(Len(s) - 1) : Rank(s[i]) > Rank(s[i + 1])

\* sorted(list(existing_bots))
RECURSIVE sorted(_)
sorted(S) ==
  IF S = {} THEN <<>>
  ELSE LET m == CHOOSE x \in S : \A y \in S : Rank(x) <= Rank(y)
       IN <<m>> \o sorted(S \ {m})

\* save_bot_username up to its save
save_bot_username(t, raw_text) ==
  /\ Ready(t)
  /\ conv[t] = AWAIT_BOT_USERNAME
  /\ LET potential_bots == findall(raw_text)
         data == load_data(t)
         r == add_bots(potential_bots, ToSet(data.target_bots), FALSE) IN
       IF potential_bots = <<>>
       THEN Begin(t, "save_bot_username", "return", get_default_data,
                  "no_usernames", AWAIT_BOT_USERNAME)
       ELSE IF r.added
       THEN Begin(t, "save_bot_username", "save",
                  [data EXCEPT !.target_bots = sorted(r.existing)], "added",
                  MANAGE_BOTS)
       ELSE Begin(t, "save_bot_username", "menu", get_default_data, "skipped",
                  MANAGE_BOTS)
  /\ UNCHANGED <<client, store, jobs, cycles, conv, recovered, begun>>

\* list.remove: the first occurrence
RECURSIVE remove(_, _)
remove(s, x) ==
  IF s = <<>> THEN <<>>
  ELSE IF Head(s) = x THEN Tail(s)
  ELSE <<Head(s)>> \o remove(Tail(s), x)

\* remove_bot up to its save
remove_bot(t, bot_username) ==
  /\ Ready(t)
  /\ conv[t] = MANAGE_BOTS
  /\ LET data == load_data(t) IN
       IF bot_username \in ToSet(data.target_bots)
       THEN Begin(t, "remove_bot", "save",
                  [data EXCEPT !.target_bots = remove(data.target_bots, bot_username)],
                  "removed", MANAGE_BOTS)
       ELSE Begin(t, "remove_bot", "menu", get_default_data, "", MANAGE_BOTS)
  /\ UNCHANGED <<client, store, jobs, cycles, conv, recovered, begun>>

\* the save_data of save_bot_username and of remove_bot
bots_save(t) ==
  /\ At(t, handler[t].op, {"save"})
  /\ handler[t].op \in {"save_bot_username", "remove_bot"}
  /\ store' = save_data(t, handler[t].data)
  /\ handler' = [handler EXCEPT ![t].pc = "menu", ![t].data = get_default_data]
  /\ UNCHANGED <<client, jobs, cycles, conv, recovered, begun>>

\* ---------------------------------------------------------------- ping cycle
\* outcome classes of one app.send_message(bot_username, "/start")
Outcomes == {"OK", "AlreadyStarted", "InvalidUsername", "Error"}

\* list(...) of a set, in the interpreter's fixed order

RECURSIVE ToList(_)
ToList(S) ==
  IF S = {} THEN <<>>
  ELSE LET x == CHOOSE y \in S : TRUE IN <<x>> \o ToList(S \ {x})

\* all_bots_to_ping = list(set(data["target_bots"] + [my_bot_username]))
all_bots_to_ping(data) == ToList(ToSet(data.target_bots \o <<my_bot_username>>))

\* a run of ping_bots_task: the job it runs for (0 once that job is removed),
\* its position, its local data, what it holds and what it told the owner
NewCycle(j, data) ==
  [job |-> j, pc |-> "done", data |-> data, held |-> FALSE, acquired |-> FALSE,
   ping_results |-> <<>>, report_sent |-> FALSE, warned |-> "", critical |-> 0]

\* the locals of a run that has come to its end
Finished(c) == [c EXCEPT !.pc = "done", !.data = get_default_data]

\* mutant: the scheduler never finds a job free to run
always_busy(t, j) == TRUE

\* the scheduler runs one instance of a job at a time
Busy(t, j) ==
  LET running == {c \in BagToSet(cycles[t]) : c.job = j}
      RECURSIVE Count(_)
      Count(S) == IF S = {} THEN 0
                  ELSE LET x == CHOOSE y \in S : TRUE
                       IN CopiesIn(x, cycles[t]) + Count(S \ {x})
  IN Count(running) >= CopiesIn(j, jobs[t])

Replace(cs, c, d) == (cs (-) SetToBag({c})) (+) SetToBag({d})

\* mutant: the callback without its is_running test
first_branch_unchecked(data) ==
  IF ~HasSession(data) THEN "no_session"
  ELSE IF all_bots_to_ping(data) = <<>> THEN "no_targets"
  ELSE "acquire"

\* where the callback goes after load_data: out at once, to one of the two
\* stopping exits, or on to the userbot
first_branch(data) ==
  IF ~data.is_running THEN "done"
  ELSE IF ~HasSession(data) THEN "no_session"
  ELSE IF all_bots_to_ping(data) = <<>> THEN "no_targets"
  ELSE "acquire"

\* the job fires: ping_bots_task up to the first await after load_data
ping_bots_task(t, j) ==
  /\ recovered
  /\ ~Returning
  /\ t \in Tenants
  /\ BagIn(j, jobs[t])
  /\ ~Busy(t, j)
  /\ BagCardinality(cycles[t]) < MaxRuns
  /\ LET data == load_data(t)
         c == NewCycle(j, data)
         p == first_branch(data) IN
       cycles' = [cycles EXCEPT ![t] = @ (+) SetToBag({
         IF p = "done" THEN Finished(c) ELSE [c EXCEPT !.pc = p]})]
  /\ begun' = [begun EXCEPT ![t] = TRUE]
  /\ UNCHANGED <<client, store, jobs, handler, conv, recovered>>

\* the three stopping exits: tell the owner, is_running = False, save_data
cycle_stop(t, c) ==
  /\ In(t, c, {"no_session", "no_targets", "critical"})
  /\ store' = save_data(t, [c.data EXCEPT !.is_running = FALSE])
  /\ cycles' = [cycles EXCEPT ![t] = Replace(@, c,
       Finished([c EXCEPT !.warned = c.pc,
                          !.critical = IF c.pc = "critical" THEN c.critical + 1
                                       ELSE c.critical]))]
  /\ UNCHANGED <<client, jobs, handler, conv, recovered, begun>>

\* async with Client(...) as app: entering the block starts the session
cycle_acquire(t, c) ==
  /\ In(t, c, {"acquire"})
  /\ \E ok \in BOOLEAN :
       cycles' = [cycles EXCEPT ![t] = Replace(@, c,
         IF ok THEN [c EXCEPT !.pc = "ping", !.held = TRUE, !.acquired = TRUE]
         ELSE [c EXCEPT !.pc = "critical"])]
  /\ UNCHANGED <<client, store, jobs, handler, conv, recovered, begun>>

\* mutant: the block is left without stopping the session
aexit_skipped(c) == c

\* leaving the async with block: Client.__aexit__ stops the session
aexit(c) == [c EXCEPT !.held = FALSE]

\* the loop over all_bots_to_ping, one send and one result line per element,
\* then the status message, sent inside the block; leaving the block stops
\* the session whether or not that send raised
cycle_ping(t, c) ==
  /\ In(t, c, {"ping"})
  /\ LET bots == all_bots_to_ping(c.data) IN
       \E outcome \in [1..Len(bots) -> Outcomes], sent \in BOOLEAN :
         LET results == [i \in 1..Len(bots) |->
                           [bot_username |-> bots[i], outcome |-> outcome[i]]] IN
           cycles' = [cycles EXCEPT ![t] = Replace(@, c,
             IF sent
             THEN Finished(aexit([c EXCEPT !.ping_results = results,
                                           !.report_sent = TRUE]))
             ELSE aexit([c EXCEPT !.pc = "critical"]))]
  /\ UNCHANGED <<client, store, jobs, handler, conv, recovered, begun>>

\* the callback returns; its job may fire again
cycle_return(t, c) ==
  /\ BagIn(c, cycles[t])
  /\ c.pc = "done"
  /\ cycles' = [cycles EXCEPT ![t] = @ (-) SetToBag({c})]
  /\ UNCHANGED <<client, store, jobs, handler, conv, recovered, begun>>

Next ==
  \/ \E t \in Tenants : \E c \in BagToSet(cycles[t]) : cycle_return(t, c)
  \/ post_init
  \/ \E t \in Tenants : start(t)
  \/ \E t \in Tenants : cancel(t)
  \/ \E t \in Tenants : prompt_session_string(t)
  \/ \E t \in Tenants : prompt_interval(t)
  \/ \E t \in Tenants : manage_bots_menu(t)
  \/ \E t \in Tenants : prompt_add_bot(t)
  \/ \E t \in Tenants : show_main_menu(t)
  \/ \E t \in Tenants : toggle_pinger(t)
  \/ \E t \in Tenants : toggle_save(t)
  \/ \E t \in Tenants : toggle_jobs(t)
  \/ \E t \in Tenants : \E text \in SessionTexts : save_session_string(t, text)
  \/ \E t \in Tenants : session_save(t)
  \/ \E t \in Tenants : \E text \in IntervalTexts : save_interval(t, text)
  \/ \E t \in Tenants : interval_save(t)
  \/ \E t \in Tenants : interval_reschedule(t)
  \/ \E t \in Tenants : \E raw_text \in BotTexts : save_bot_username(t, raw_text)
  \/ \E t \in Tenants : \E bot_username \in Handles : remove_bot(t, bot_username)
  \/ \E t \in Tenants : bots_save(t)
  \/ \E t \in Tenants : handler_return(t)
  \/ \E t \in Tenants : \E j \in BagToSet(jobs[t]) : ping_bots_task(t, j)
  \/ \E t \in Tenants : \E c \in BagToSet(cycles[t]) : cycle_stop(t, c)
  \/ \E t \in Tenants : \E c \in BagToSet(cycles[t]) : cycle_acquire(t, c)
  \/ \E t \in Tenants : \E c \in BagToSet(cycles[t]) : cycle_ping(t, c)


Spec == Init /\ [][Next]_vars

\* a collection in which every chat has the default values
InitFresh == InitWith({"T42"}, {NoDoc, get_default_data})

SpecFresh == InitFresh /\ [][Next]_vars

\* startup alone, over two chats and every content of the collection
InitBoot == InitWith({"A", "B"}, Docs \cup {NoDoc})

NextBoot == post_init

SpecBoot == InitBoot /\ [][NextBoot]_vars

\* the list of bots alone: one chat that starts with no bots, an owner who only
\* adds and removes them, no pinger
InitTargets == InitFresh /\ client

NextTargets ==
  \/ post_init
  \/ \E t \in Tenants : start(t)
  \/ \E t \in Tenants : cancel(t)
  \/ \E t \in Tenants : manage_bots_menu(t)
  \/ \E t \in Tenants : prompt_add_bot(t)
  \/ \E t \in Tenants : show_main_menu(t)
  \/ \E t \in Tenants : \E raw_text \in MoreBotTexts : save_bot_username(t, raw_text)
  \/ \E t \in Tenants : \E bot_username \in MoreHandles : remove_bot(t, bot_username)
  \/ \E t \in Tenants : bots_save(t)
  \/ \E t \in Tenants : handler_return(t)

SpecTargets == InitTargets /\ [][NextTargets]_vars

\* the pinger alone: one chat with a session and the pinger off, an owner who
\* only toggles it and sets the interval; every due job is called in the end
\* and every run of the callback goes on to its end
LiveTenants == {"T42"}

InitLive ==
  /\ InitWith(LiveTenants, Docs)
  /\ client
  /\ \A t \in LiveTenants :
       /\ store[t].userbot_session # None
       /\ ~store[t].is_running
       /\ store[t].target_bots = <<>>

NextLive ==
  \/ \E t \in Tenants : \E c \in BagToSet(cycles[t]) : cycle_return(t, c)
  \/ post_init
  \/ \E t \in Tenants : start(t)
  \/ \E t \in Tenants : prompt_interval(t)
  \/ \E t \in Tenants : toggle_pinger(t)
  \/ \E t \in Tenants : toggle_save(t)
  \/ \E t \in Tenants : toggle_jobs(t)
  \/ \E t \in Tenants : \E text \in IntervalTexts : save_interval(t, text)
  \/ \E t \in Tenants : interval_save(t)
  \/ \E t \in Tenants : interval_reschedule(t)
  \/ \E t \in Tenants : handler_return(t)
  \/ \E t \in Tenants : \E j \in BagToSet(jobs[t]) : ping_bots_task(t, j)
  \/ \E t \in Tenants : \E c \in BagToSet(cycles[t]) : cycle_stop(t, c)
  \/ \E t \in Tenants : \E c \in BagToSet(cycles[t]) : cycle_acquire(t, c)
  \/ \E t \in Tenants : \E c \in BagToSet(cycles[t]) : cycle_ping(t, c)

\* a job of the tenant is due and its callback is called
job_due(t) == \E j \in BagToSet(jobs[t]) : ping_bots_task(t, j)

\* a run of the callback takes its next step
cycle_step(t) ==
  \E c \in BagToSet(cycles[t]) :
    cycle_return(t, c) \/ cycle_stop(t, c) \/ cycle_acquire(t, c) \/ cycle_ping(t, c)

FairLive ==
  \A t \in LiveTenants : WF_vars(cycle_step(t)) /\ SF_vars(job_due(t))

SpecLive == InitLive /\ [][NextLive]_vars /\ FairLive

\* ------------------------------------------------------------------ claims
Running(t) == store[t] # NoDoc /\ store[t].is_running

Session(t) == IF store[t] = NoDoc THEN None ELSE store[t].userbot_session

Timers(t) == BagCardinality(jobs[t])

\* C1: at most one timer is registered for a tenant in every reachable state
C1_SingleTimer == \A t \in Tenants : Timers(t) <= 1

\* C2: a cycle whose acquisition of the messaging capability failed ends with
\* is_running persisted false, no timer registered for the tenant and exactly
\* one critical-error report sent to the owner
C2_FatalStopsTimer ==
  [][\A t \in Tenants : \A c \in BagToSet(cycles[t]) :
       (c.pc = "critical" /\ ~c.acquired /\ cycle_stop(t, c)) =>
         /\ ~Running(t)'
         /\ Timers(t)' = 0
         /\ \E d \in BagToSet(cycles'[t]) : d.pc = "done" /\ d.critical = 1]_vars

\* C3: a toggle while is_running is persisted false and no session is stored
\* goes straight to the menu: no step of that handler writes the collection or
\* touches the job queue
C3_StartNeedsSession ==
  [][\A t \in Tenants :
       /\ (toggle_pinger(t) /\ ~Running(t) /\ Session(t) = None) =>
            /\ handler'[t].pc \in {"menu", "return"}
            /\ store' = store /\ jobs' = jobs
       /\ (handler[t].reply \in {"cannot_start", "database_error"}
             /\ handler'[t] # handler[t]) =>
            /\ handler'[t].op = "idle"
            /\ store' = store /\ jobs' = jobs]_vars

C3_Witness ==
  \E t \in Tenants :
    /\ handler[t].op = "toggle_pinger" /\ handler[t].reply = "cannot_start"
    /\ client /\ ~Running(t) /\ Session(t) = None /\ Timers(t) = 0

\* C4: with the store reachable, startup leaves exactly one timer for every
\* tenant persisted as running, at that tenant's persisted interval, none for
\* any other tenant, and the collection as it was
C4_Recovery ==
  [][(post_init /\ client) =>
       /\ \A t \in Tenants :
            jobs'[t] = IF Running(t)
                       THEN SetToBag({store[t].ping_interval_seconds})
                       ELSE EmptyBag
       /\ store' = store]_vars

C4_Witness ==
  /\ recovered /\ client
  /\ Running("A") /\ store["A"].ping_interval_seconds = 60
  /\ jobs["A"] = SetToBag({60})
  /\ ~Running("B") /\ jobs["B"] = EmptyBag

\* C5: from a collection of defaults, a tenant persisted as running always has
\* a session in its persisted document
C5_RunningHasSession == \A t \in Tenants : Running(t) => Session(t) # None

C5_Witness ==
  \E t \in Tenants : Running(t) /\ Session(t) # None /\ Timers(t) = 1

\* C6: an interval text that is no integer, or an integer below 1, leaves the
\* conversation in AWAIT_INTERVAL, and its handler writes no document and
\* touches no job
C6_InvalidIntervalStays ==
  [][\A t \in Tenants :
       /\ (\E text \in IntervalTexts :
             InvalidInterval(text) /\ save_interval(t, text)) =>
            handler'[t].reply = "invalid_input"
       /\ (handler[t].reply = "invalid_input" /\ handler'[t] # handler[t]) =>
            /\ conv'[t] = AWAIT_INTERVAL
            /\ store' = store /\ jobs' = jobs]_vars

\* C7: a run writes the collection only after a missing session, an empty
\* target list or a failed acquisition; after the capability was acquired no
\* error of the run changes the persisted document
C7_OnlyFatalStops ==
  [][\A t \in Tenants : \A c \in BagToSet(cycles[t]) :
       /\ (cycle_stop(t, c) /\ store'[t] # store[t]) =>
            (c.pc \in {"no_session", "no_targets"} \/ ~c.acquired)
       /\ (cycle_acquire(t, c) \/ cycle_ping(t, c)) => store' = store]_vars

\* C8: a run that acquired the capability attempts each handle of
\* target_bots and the bot's own handle once, reports one line per handle with
\* one of the four outcomes, and leaves is_running as it is persisted
C8_CycleReport ==
  [][\A t \in Tenants : \A c \in BagToSet(cycles[t]) :
       /\ cycle_ping(t, c) =>
            \A d \in BagToSet(cycles'[t]) :
              (d.pc = "done" /\ d.report_sent) =>
                LET n == Len(d.ping_results)
                    want == ToSet(c.data.target_bots) \cup {my_bot_username} IN
                  /\ {d.ping_results[i].bot_username : i \in 1..n} = want
                  /\ n = Cardinality(want)
                  /\ \A i \in 1..n : d.ping_results[i].outcome \in Outcomes
       /\ (c.acquired /\ (cycle_ping(t, c) \/ cycle_stop(t, c))) =>
            store' = store]_vars

\* C9: a valid interval update replaces the tenant's timers by one at the new
\* interval when a timer is registered, and registers none when none is
C9_RescheduleFollowsRegistry ==
  [][\A t \in Tenants :
       /\ interval_save(t) =>
            handler'[t].pc = IF Timers(t) > 0 THEN "reschedule" ELSE "menu"
       /\ interval_reschedule(t) =>
            jobs'[t] = SetToBag({handler[t].data.ping_interval_seconds})]_vars

\* C10: a toggle while is_running is loaded true writes the loaded document
\* with only is_running changed, to false, and ends with is_running persisted
\* false and no timer left for the tenant, however many there were
C10_StopClearsTimers ==
  [][\A t \in Tenants :
       /\ (toggle_pinger(t) /\ client /\ Running(t)) =>
            /\ handler'[t].pc = "stop_save"
            /\ handler'[t].data = [store[t] EXCEPT !.is_running = FALSE]
       /\ (toggle_save(t) /\ handler[t].pc = "stop_save") =>
            store'[t] = handler[t].data
       /\ (toggle_jobs(t) /\ handler[t].pc = "stop_jobs") =>
            /\ Timers(t)' = 0
            /\ ~Running(t)'
            /\ store' = store]_vars

C10_Witness ==
  \E t \in Tenants :
    /\ handler[t].op = "toggle_pinger" /\ handler[t].reply = "stopped"
    /\ ~Running(t) /\ Timers(t) = 0
    /\ Session(t) # None /\ store[t].ping_interval_seconds = 60

\* the five states of the ConversationHandler
ConvStates ==
  {SELECTING_ACTION, AWAIT_BOT_USERNAME, AWAIT_SESSION_STRING, AWAIT_INTERVAL,
   MANAGE_BOTS}

\* C11: in each of the five conversation states /cancel and /start end in
\* SELECTING_ACTION, and neither writes a document nor touches a job
C11_CancelAndStartReset ==
  [][\A t \in Tenants :
       (conv[t] \in ConvStates /\ (start(t) \/ cancel(t))) =>
         /\ conv'[t] = SELECTING_ACTION
         /\ store' = store /\ jobs' = jobs]_vars

\* an interval has been asked for and not given: both commands are accepted
C11_Witness ==
  \E t \in Tenants :
    /\ conv[t] = AWAIT_INTERVAL /\ handler[t] = Idle
    /\ ENABLED cancel(t) /\ ENABLED start(t)

\* C12: from an empty list, whatever is added and removed, target_bots as
\* persisted holds each handle at most once in ascending order, and a message
\* that names only handles already stored (or the bot itself) is answered
\* without a write
C12_TargetsSortedUnique ==
  [][\A t \in Tenants :
       /\ store'[t] # NoDoc =>
            LET s == store'[t].target_bots IN
              \A i, k \in 1..Len(s) : i < k => Rank(s[i]) < Rank(s[k])
       /\ \A raw_text \in MoreBotTexts :
            (/\ save_bot_username(t, raw_text)
             /\ ToSet(findall(raw_text)) \subseteq
                  ToSet(load_data(t).target_bots) \cup {my_bot_username}) =>
              handler'[t].pc \in {"menu", "return"}
       /\ (handler[t].reply \in {"skipped", "no_usernames"}
             /\ handler'[t] # handler[t]) =>
            /\ handler'[t] = Idle
            /\ store' = store]_vars

\* two bots are stored and a message naming one of them again was answered
C12_Witness ==
  \E t \in Tenants :
    /\ store[t] # NoDoc
    /\ store[t].target_bots = <<"@a_bot", "@b_bot">>
    /\ handler[t].op = "save_bot_username" /\ handler[t].reply = "skipped"

\* C13: at most one run of the callback is in progress for a tenant
C13_NoOverlap == \A t \in Tenants : BagCardinality(cycles[t]) <= 1

\* C14: once the start branch has registered its job, the callback is called
\* for the tenant unless a stop removes the jobs first; and the job is
\* registered only after is_running = True was saved, as one job that has not
\* run yet
C14_StartLeadsToCycle ==
  /\ \A t \in LiveTenants :
       (handler[t].reply = "started") ~> (begun[t] \/ Timers(t) = 0)
  /\ [][\A t \in Tenants :
          /\ (handler'[t].pc = "start_jobs" /\ handler[t].pc # "start_jobs") =>
               (toggle_save(t) /\ Running(t)')
          /\ (toggle_pinger(t) \/ toggle_save(t)) => jobs' = jobs
          /\ (toggle_jobs(t) /\ handler[t].pc = "start_jobs") =>
               /\ jobs'[t] = jobs[t] (+)
                               SetToBag({handler[t].data.ping_interval_seconds})
               /\ ~begun'[t]]_vars

\* the job the start branch registered has been called and its run is on its way
C14_Witness ==
  \E t \in Tenants :
    /\ Running(t) /\ begun[t] /\ Timers(t) = 1
    /\ handler[t].reply = "started"
    /\ \E c \in BagToSet(cycles[t]) : c.pc = "acquire" /\ c.job \in BagToSet(jobs[t])

\* C15: a run holds the userbot session only inside the async with block:
\* whichever way it leaves the block, it holds nothing afterwards
C15_ReleasedOnEveryExit ==
  \A t \in Tenants : \A c \in BagToSet(cycles[t]) : c.held => c.pc = "ping"

\* the status message could not be sent: the run is in its except block and
\* the session it had started is stopped
C15_Witness ==
  \E t \in Tenants : \E c \in BagToSet(cycles[t]) :
    c.pc = "critical" /\ c.acquired /\ ~c.held

\* C16: a call of the callback that loads is_running = False ends at once: no
\* userbot session, no message to the owner, no write, the jobs as they were
C16_NotRunningIsNoOp ==
  [][\A t \in Tenants :
       /\ \A j \in BagToSet(jobs[t]) :
            (ping_bots_task(t, j) /\ ~load_data(t).is_running) =>
              /\ store' = store /\ jobs' = jobs
              /\ \E d \in BagToSet(cycles'[t]) :
                   /\ cycles'[t] = cycles[t] (+) SetToBag({d})
                   /\ d.pc = "done" /\ ~d.acquired /\ ~d.held
                   /\ d.warned = "" /\ d.critical = 0 /\ ~d.report_sent
       /\ \A c \in BagToSet(cycles[t]) :
            cycle_return(t, c) => (store' = store /\ jobs' = jobs)]_vars

\* a job was called while is_running is persisted False, and its run is over
C16_Witness ==
  \E t \in Tenants : \E c \in BagToSet(cycles[t]) :
    /\ ~Running(t) /\ Timers(t) = 1
    /\ c.pc = "done" /\ ~c.acquired /\ c.warned = "" /\ ~c.report_sent

\* C17: the write of a run changes is_running only: every other field of the
\* persisted document is after the write what it was before it
C17_CycleWritesRunningOnly ==
  [][\A t \in Tenants : \A c \in BagToSet(cycles[t]) :
       (cycle_stop(t, c) /\ store[t] # NoDoc) =>
         store'[t] = [store[t] EXCEPT !.is_running = FALSE]]_vars

\* C18: the save of a handler that sets the session, the interval or the list
\* of bots never turns the persisted is_running from False to True
C18_OnlyStartSetsRunning ==
  [][\A t \in Tenants :
       (session_save(t) \/ interval_save(t) \/ bots_save(t)) =>
         (Running(t)' => Running(t))]_vars

\* C19: while no handler and no run of the callback is in progress for a
\* tenant, each of its jobs has the persisted ping_interval_seconds as interval
C19_TimersAtPersistedInterval ==
  \A t \in Tenants :
    (handler[t] = Idle /\ cycles[t] = EmptyBag) =>
      \A j \in BagToSet(jobs[t]) : j = load_data(t).ping_interval_seconds

\* C20: with the Mongo client constructed and startup done, while no handler
\* is in progress for a tenant, is_running persisted True means that at least
\* one job is registered for it
C20_RunningHasTimer ==
  \A t \in Tenants :
    (client /\ recovered /\ handler[t] = Idle /\ Running(t)) => Timers(t) >= 1

\* a handler wrote is_running = True back after a run had saved False: the
\* tenant is shown as running and the job the run left behind is registered
C20_Witness ==
  \E t \in Tenants :
    /\ client /\ recovered /\ handler[t] = Idle /\ cycles[t] = EmptyBag
    /\ Running(t) /\ Timers(t) = 1 /\ begun[t]
    /\ store[t].target_bots = <<"@a_bot">>

====
